---- MODULE Spec2Model ----
(***************************************************************************)
(* A model of application/languagetable.py: the tolerant checkpoint        *)
(* restore at startup (lines 81-98) and the action-conditioned             *)
(* segment-chaining loop (lines 142-183).                                  *)
(*                                                                         *)
(* The specifications share the variables.  SpecLoad runs the checkpoint   *)
(* loader over bounded checkpoint files and live models; Spec runs the     *)
(* session loop from the state main() is in at line 143, SpecFair the same *)
(* loop under the fairness of a running process; SpecEncode runs the       *)
(* action encoder alone and SpecArrows runs add_arrows_to_video (lines     *)
(* 51-69).                                                                 *)
(***************************************************************************)
EXTENDS Integers, Sequences, FiniteSets, TLC

VARIABLES
    \* ---- checkpoint loader (main, lines 81-98) ----
    lpc,              \* position of main() inside the loader
    ckpt_file,        \* content of the file at args.evaluate_checkpoint
    checkpoint,       \* local `checkpoint`
    model,            \* the live model's parameters (model.state_dict())
    model_dict,       \* local `model_dict`
    pretrained_dict,  \* local `pretrained_dict`
    todo,             \* keys `for k, v in checkpoint.items()` has still to visit
    ignored,          \* keys printed as 'Ignoring: k', in print order
    loaded_pct,       \* the percentage printed at line 95, as <<num, den>>
    \* ---- session loop (main, lines 130-183) ----
    pc,               \* position of main() inside the loop
    env_actions,      \* local `env_actions`
    actions,          \* local `actions`
    start_image,      \* local `start_image`: the current latent frame
    seg_video,        \* local `seg_video`
    seg_latents,      \* local `seg_latents`
    t_videos,         \* local `t_videos`
    seg_video_list,   \* local `seg_video_list`
    all_video,        \* local `all_video`
    seg_idx,          \* local `seg_idx`
    output_video_path,\* local `output_video_path`
    writer,           \* local `writer`: the open video writer, or NoWriter
    files,            \* files written under game_dir by this session
    history,          \* the segments the generator has returned, oldest first
    \* ---- add_arrows_to_video (lines 51-69) ----
    apc,              \* position inside add_arrows_to_video, or "uncalled"
    video_np,         \* parameter `video_np`; its frames are written in place
    arrow_actions,    \* parameter `actions`
    arrow_file,       \* the file at `save_path`, or None while there is none
    arrow_i           \* iterations of the loop of line 60 that are done

loadvars == <<lpc, ckpt_file, checkpoint, model, model_dict, pretrained_dict,
              todo, ignored, loaded_pct>>
loopvars == <<pc, env_actions, actions, start_image, seg_video, seg_latents,
              t_videos, seg_video_list, all_video, seg_idx, output_video_path,
              writer, files, history>>
arrowvars == <<apc, video_np, arrow_actions, arrow_file, arrow_i>>
vars == <<loadvars, loopvars, arrowvars>>

----------------------------------------------------------------------------
(* Bounds *)

MaxEntries == 3       \* most entries in one parameter dictionary
MaxOther == 1         \* most entries in a top-level "model" dictionary
MaxRounds == 3        \* rounds of the session loop that are explored
MaxInput == 1         \* most symbols typed in one round of the session
MaxSymbols == 3       \* most symbols in a line given to the encoder alone
MaxSegLen == 3        \* most frames in one generated segment
MaxOverlay == 2       \* most frames, and most actions, given to the overlay
NumChannels == 2      \* channels of one latent frame

----------------------------------------------------------------------------
(* Values stored in checkpoints and models *)

None == [kind |-> "none"]

\* A tensor: where it comes from ("init", "raw", "ema") and the name it is
\* stored under.
Tensor(src, k) == [kind |-> "tensor", src |-> src, name |-> k]

\* A Python dict: a function from keys to values.
Dict(f) == [kind |-> "dict", items |-> f]

IsDict(v) == v.kind = "dict"

Keys(d) == DOMAIN d.items

\* `k in d`
HasKey(d, k) == k \in Keys(d)

\* len(d)
DictLen(d) == Cardinality(Keys(d))

ParamNames == {"a", "b", "c", "d", "ema"}

ModelNames == {"a", "c", "d", "ema"}

SmallSubsets(S, n) == {T \in SUBSET S : Cardinality(T) <= n}

\* A state dict saved from source `src`: every entry is a tensor.
StateDicts(src, n) ==
    {Dict([k \in S |-> Tensor(src, k)]) : S \in SmallSubsets(ParamNames, n)}

\* The files torch.load can return: a bare state dict, or a container with an
\* "ema" state dict and possibly a "model" state dict beside it.
CheckpointFiles ==
    StateDicts("raw", MaxEntries)
    \cup {Dict("ema" :> e) : e \in StateDicts("ema", MaxEntries)}
    \cup {Dict(("ema" :> e) @@ ("model" :> m)) :
            e \in StateDicts("ema", MaxEntries), m \in StateDicts("raw", MaxOther)}

\* The live model before loading: every parameter holds its initial value.
Models == {[k \in S |-> Tensor("init", k)] : S \in SUBSET ModelNames}

Empty == [k \in {} |-> None]

----------------------------------------------------------------------------
(* Checkpoint loader: pure parts *)

\* A loader that never looks for the "ema" entry.
UseEmaCkptNever(c) == c

\* Lines 84-86: an "ema" entry replaces the checkpoint wholesale.
UseEmaCkpt(c) == IF HasKey(c, "ema") THEN c.items["ema"] ELSE c

\* A filter that keeps every entry.
KeepKeyAlways(k, md) == TRUE

\* Line 91: `k in model_dict`.
KeepKey(k, md) == k \in DOMAIN md

\* Lines 91-94 for one entry: the entry is copied or reported.
FilterInto(p, k, v, md) == IF KeepKey(k, md) THEN p @@ (k :> v) ELSE p

\* Line 95: len(pretrained_dict) / len(checkpoint.items()) * 100, kept exact
\* as numerator and denominator.
PctLoaded(p, c) == <<Cardinality(DOMAIN p) * 100, DictLen(c)>>

\* A merge that replaces the model's dictionary by the filtered one.
UpdateReplace(d, p) == p

\* Line 96: dict.update.
Update(d, p) ==
    [k \in DOMAIN d \cup DOMAIN p |-> IF k \in DOMAIN p THEN p[k] ELSE d[k]]

----------------------------------------------------------------------------
(* Checkpoint loader: steps *)

\* Line 83.
TorchLoad ==
    /\ lpc = "load"
    /\ checkpoint' = ckpt_file
    /\ lpc' = "ema"
    /\ UNCHANGED <<ckpt_file, model, model_dict, pretrained_dict, todo,
                   ignored, loaded_pct,
                   loopvars, arrowvars>>

\* Lines 84-86.
UseEma ==
    /\ lpc = "ema"
    /\ checkpoint' = UseEmaCkpt(checkpoint)
    /\ lpc' = "state_dict"
    /\ UNCHANGED <<ckpt_file, model, model_dict, pretrained_dict, todo,
                   ignored, loaded_pct,
                   loopvars, arrowvars>>

\* Lines 88-89.
StateDict ==
    /\ lpc = "state_dict"
    /\ model_dict' = model
    /\ pretrained_dict' = Empty
    /\ lpc' = "items"
    /\ UNCHANGED <<ckpt_file, checkpoint, model, todo, ignored, loaded_pct,
                   loopvars, arrowvars>>

\* Line 90, entering the loop: a tensor has no .items().
Items ==
    /\ lpc = "items"
    /\ IF IsDict(checkpoint)
         THEN todo' = Keys(checkpoint) /\ lpc' = "filter"
         ELSE todo' = todo /\ lpc' = "AttributeError"
    /\ UNCHANGED <<ckpt_file, checkpoint, model, model_dict, pretrained_dict,
                   ignored, loaded_pct,
                   loopvars, arrowvars>>

\* Lines 90-94, one iteration.  The entries are visited in the dictionary's
\* order, which is any order of its keys.
FilterKey ==
    /\ lpc = "filter"
    /\ \E k \in todo :
         /\ pretrained_dict' =
              FilterInto(pretrained_dict, k, checkpoint.items[k], model_dict)
         /\ ignored' = IF KeepKey(k, model_dict) THEN ignored
                                                  ELSE Append(ignored, k)
         /\ todo' = todo \ {k}
    /\ UNCHANGED <<lpc, ckpt_file, checkpoint, model, model_dict, loaded_pct,
                   loopvars, arrowvars>>

\* Line 95: the division fails on a checkpoint with no entries.
Report ==
    /\ lpc = "filter"
    /\ todo = {}
    /\ IF DictLen(checkpoint) = 0
         THEN loaded_pct' = loaded_pct /\ lpc' = "ZeroDivisionError"
         ELSE /\ loaded_pct' = PctLoaded(pretrained_dict, checkpoint)
              /\ lpc' = "update"
    /\ UNCHANGED <<ckpt_file, checkpoint, model, model_dict, pretrained_dict,
                   todo, ignored,
                   loopvars, arrowvars>>

\* Lines 96-97: load_state_dict is strict about the key set.
UpdateAndLoad ==
    /\ lpc = "update"
    /\ model_dict' = Update(model_dict, pretrained_dict)
    /\ IF DOMAIN model_dict' = DOMAIN model
         THEN model' = model_dict' /\ lpc' = "done"
         ELSE model' = model /\ lpc' = "RuntimeError"
    /\ UNCHANGED <<ckpt_file, checkpoint, pretrained_dict, todo, ignored,
                   loaded_pct,
                   loopvars, arrowvars>>

LoadInit ==
    /\ lpc = "load"
    /\ ckpt_file \in CheckpointFiles
    /\ checkpoint = None
    /\ model \in Models
    /\ model_dict = Empty
    /\ pretrained_dict = Empty
    /\ todo = {}
    /\ ignored = <<>>
    /\ loaded_pct = None

LoadNext ==
    \/ TorchLoad
    \/ UseEma
    \/ StateDict
    \/ Items
    \/ FilterKey
    \/ Report
    \/ UpdateAndLoad

----------------------------------------------------------------------------
(* Session loop: values *)

\* One video frame.  The generator numbers nothing; a frame is named here by
\* the round that produced it and its position in that round's segment, so
\* that frames of different origin are never confused.
Frame(r, k, dtype, layout) ==
    [round |-> r, pos |-> k, dtype |-> dtype, layout |-> layout]

\* A latent tensor: its shape down to the channel dimension, and its channel
\* planes in row-major order.  A plane (h, w) is named <<r, k, c>>: channel c
\* of the k-th latent of round r; h and w are larger than 1.
TensorOf(shape, planes) == [shape |-> shape, planes |-> planes]

\* One latent frame, shape (c, h, w).
Latent(r, k) ==
    TensorOf(<<NumChannels>>, [c \in 1..NumChannels |-> <<r, k, c>>])

IsLatent(x) == \E r \in 0..MaxRounds, k \in 1..MaxSegLen : x = Latent(r, k)

\* A local of the loop that holds a tensor and is not bound yet.
NoTensor == TensorOf(<<0>>, <<>>)

\* A local of the loop that holds a sequence and is not bound yet.
Unbound == <<>>

\* output_video_path before line 175 has run.
NoPath == ""

\* Lines 117-136: the reference video's first frame, resized, (h, w, c) uint8.
FirstFrame == Frame(0, 1, "uint8", "hwc")

Symbols == {"w", "a", "s", "d", " ", "x"}

Lines(n) == UNION {[1..m -> Symbols] : m \in 0..n}

\* Control vectors are written in tenths: 5 is 0.5.
Half == 5

----------------------------------------------------------------------------
(* Session loop: pure parts *)

\* A lookup with forward and backward exchanged.
EncodeOneSwapped(action) ==
    IF action = "d" THEN <<0, Half>>
    ELSE IF action = "a" THEN <<0, -Half>>
    ELSE IF action = "s" THEN <<Half, 0>>
    ELSE IF action = "w" THEN <<-Half, 0>>
    ELSE <<0, 0>>

\* Lines 149-158: one symbol.
EncodeOne(action) ==
    IF action = "d" THEN <<0, Half>>
    ELSE IF action = "a" THEN <<0, -Half>>
    ELSE IF action = "s" THEN <<-Half, 0>>
    ELSE IF action = "w" THEN <<Half, 0>>
    ELSE <<0, 0>>

RECURSIVE EncodeLoopSkip(_, _)
\* An encoder that appends nothing for a symbol outside w, a, s, d.
EncodeLoopSkip(acc, rest) ==
    IF rest = <<>> THEN acc
    ELSE IF Head(rest) \in {"w", "a", "s", "d"}
      THEN EncodeLoopSkip(Append(acc, <<0, 0>>), Tail(rest))
      ELSE EncodeLoopSkip(acc, Tail(rest))

RECURSIVE EncodeLoop(_, _)
\* Lines 147-158: `acc` is `actions`, `rest` the symbols not yet visited.
EncodeLoop(acc, rest) ==
    IF rest = <<>> THEN acc
    ELSE EncodeLoop(Append(acc, EncodeOne(Head(rest))), Tail(rest))

\* Lines 147-161.
Encode(symbols) == EncodeLoop(<<>>, symbols)

\* tensor.unsqueeze(0)
Unsqueeze(t) == TensorOf(<<1>> \o t.shape, t.planes)

IsNotOne(d) == d # 1

\* tensor.squeeze(): every dimension of size 1 is removed.
Squeeze(t) == TensorOf(SelectSeq(t.shape, IsNotOne), t.planes)

\* tensor[i] for i counted from 1: the i-th slice along the first dimension.
\* With no dimension left above the planes, the index goes into a plane and
\* yields one of its rows.
Slice(t, i) ==
    IF t.shape = <<>>
      THEN TensorOf(<<>>, <<t.planes[1] \o <<i>> >>)
      ELSE LET size == Len(t.planes) \div t.shape[1]
           IN  TensorOf(Tail(t.shape),
                        SubSeq(t.planes, (i - 1) * size + 1, i * size))

\* tensor[-1]
SliceLast(t) == Slice(t, IF t.shape = <<>> THEN 0 ELSE t.shape[1])

\* Line 167: seg_latents.squeeze()[-1].clone(); seg_latents is
\* (batch, frames, channels, h, w).
LastLatent(latents) == SliceLast(Squeeze(latents))

\* Lines 169-170, one frame: to 8-bit, channels last.
ToUint8(f) == Frame(f.round, f.pos, "uint8", "hwc")

\* Lines 169-170.
ToUint8Video(v) == [i \in 1..Len(v) |-> ToUint8(v[i])]

\* t_videos[1:]
DropFirst(v) == IF v = <<>> THEN <<>> ELSE Tail(v)

\* A stitcher that keeps the duplicated seed frame.
ExtendWhole(list, seg) == Append(list, seg)

\* Line 172.
Extend(list, seg) == Append(list, DropFirst(seg))

RECURSIVE ConcatenateReversed(_)
\* A concatenation that puts the newest segment first.
ConcatenateReversed(list) ==
    IF list = <<>> THEN <<>>
    ELSE ConcatenateReversed(Tail(list)) \o Head(list)

RECURSIVE Concatenate(_)
\* np.concatenate(seg_video_list, axis=0)
Concatenate(list) ==
    IF list = <<>> THEN <<>> ELSE Head(list) \o Concatenate(Tail(list))

\* A path that carries no round index.
VideoPathFixed(idx) == "application/languagetable_game/all.mp4"

\* Line 175: os.path.join(game_dir, f'all_{seg_idx}-th.mp4')
VideoPath(idx) ==
    "application/languagetable_game/all_" \o ToString(idx) \o "-th.mp4"

\* A writer that opens an existing file for appending.
OpenFileAppending(fs, path) ==
    [p \in DOMAIN fs \cup {path} |->
        IF p \notin DOMAIN fs THEN [frames |-> <<>>, closed |-> FALSE]
        ELSE IF p = path THEN [fs[p] EXCEPT !.closed = FALSE]
        ELSE fs[p]]

\* Line 177: get_writer creates the file, or truncates the one that is there.
OpenFile(fs, path) ==
    [p \in DOMAIN fs \cup {path} |->
        IF p = path THEN [frames |-> <<>>, closed |-> FALSE] ELSE fs[p]]

\* Line 179: writer.append_data(frame)
AppendData(fs, path, frame) ==
    [fs EXCEPT ![path].frames = Append(@, frame)]

\* Line 180: writer.close()
CloseFile(fs, path) == [fs EXCEPT ![path].closed = TRUE]

RECURSIVE AppendAll(_, _, _)
\* Lines 178-179, the whole loop.
AppendAll(fs, path, video) ==
    IF Len(video) = 0 THEN fs
    ELSE AppendAll(AppendData(fs, path, Head(video)), path, Tail(video))

\* Lines 177-180: the video written to the file at path.
Persist(fs, path, video) ==
    CloseFile(AppendAll(OpenFile(fs, path), path, video), path)

----------------------------------------------------------------------------
(* Collaborators the loop calls *)

\* read_actions_from_keyboard(): one line of typed symbols.
ReadActionsFromKeyboard == Lines(MaxInput)

\* The VAE decoding of one latent frame, (c, h, w) float.
Decode(lat) == Frame(lat.planes[1][1], lat.planes[1][2], "float", "chw")

\* generate_single_video, latent trajectory: the seed, then the latents of
\* round r, one per produced frame, under a batch dimension of 1.
GenLatents(seed, r, n) ==
    TensorOf(<<1, n, NumChannels>>,
             [j \in 1..(n * NumChannels) |->
                LET k == ((j - 1) \div NumChannels) + 1
                    c == ((j - 1) % NumChannels) + 1
                IN  IF k = 1 THEN seed.planes[c] ELSE <<r, k, c>>])

\* generate_single_video, decoded segment: seed frame first.
GenVideo(seed, r, n) ==
    [k \in 1..n |-> Decode(IF k = 1 THEN seed ELSE Latent(r, k))]

----------------------------------------------------------------------------
(* Session loop: steps *)

NoWriter == [path |-> "", open |-> FALSE]

\* Line 146.
ReadActions ==
    /\ pc = "read"
    /\ seg_idx < MaxRounds
    /\ env_actions' \in ReadActionsFromKeyboard
    /\ pc' = "encode"
    /\ UNCHANGED <<actions, start_image, seg_video, seg_latents, t_videos,
                   seg_video_list, all_video, seg_idx, output_video_path,
                   writer, files, history,
                   loadvars, arrowvars>>

\* Lines 147-161.
EncodeActions ==
    /\ pc = "encode"
    /\ actions' = Encode(env_actions)
    /\ pc' = "generate"
    /\ UNCHANGED <<env_actions, start_image, seg_video, seg_latents, t_videos,
                   seg_video_list, all_video, seg_idx, output_video_path,
                   writer, files, history,
                   loadvars, arrowvars>>

\* Lines 163-165, the call returning.  The generator wants a latent frame as
\* its seed and chooses how many frames it produces.
Generate ==
    /\ pc = "generate"
    /\ IsLatent(start_image)
    /\ start_image' = Unsqueeze(Unsqueeze(start_image))
    /\ \E n \in 1..MaxSegLen :
         /\ seg_video' = GenVideo(start_image, seg_idx + 1, n)
         /\ seg_latents' = GenLatents(start_image, seg_idx + 1, n)
    /\ history' = Append(history, seg_video')
    /\ pc' = "update"
    /\ UNCHANGED <<env_actions, actions, t_videos, seg_video_list, all_video,
                   seg_idx, output_video_path, writer, files,
                   loadvars, arrowvars>>

\* A loop that catches the generator's exception and asks for input again.
GenerateFailSwallowed ==
    /\ pc = "generate"
    /\ start_image' = Unsqueeze(Unsqueeze(start_image))
    /\ pc' = "read"
    /\ UNCHANGED <<env_actions, actions, seg_video, seg_latents, t_videos,
                   seg_video_list, all_video, seg_idx, output_video_path,
                   writer, files, history,
                   loadvars, arrowvars>>

\* Lines 163-165, the call raising: the exception leaves main().
GenerateFail ==
    /\ pc = "generate"
    /\ start_image' = Unsqueeze(Unsqueeze(start_image))
    /\ pc' = "failed"
    /\ UNCHANGED <<env_actions, actions, seg_video, seg_latents, t_videos,
                   seg_video_list, all_video, seg_idx, output_video_path,
                   writer, files, history,
                   loadvars, arrowvars>>

\* Line 167.
UpdateLatent ==
    /\ pc = "update"
    /\ start_image' = LastLatent(seg_latents)
    /\ pc' = "stitch"
    /\ UNCHANGED <<env_actions, actions, seg_video, seg_latents, t_videos,
                   seg_video_list, all_video, seg_idx, output_video_path,
                   writer, files, history,
                   loadvars, arrowvars>>

\* Lines 169-173.
Stitch ==
    /\ pc = "stitch"
    /\ t_videos' = ToUint8Video(seg_video)
    /\ seg_video_list' = Extend(seg_video_list, t_videos')
    /\ all_video' = Concatenate(seg_video_list')
    /\ pc' = "open"
    /\ UNCHANGED <<env_actions, actions, start_image, seg_video, seg_latents,
                   seg_idx, output_video_path, writer, files, history,
                   loadvars, arrowvars>>

\* Lines 175-177.
OpenWriter ==
    /\ pc = "open"
    /\ output_video_path' = VideoPath(seg_idx)
    /\ writer' = [path |-> output_video_path', open |-> TRUE]
    /\ files' = OpenFile(files, output_video_path')
    /\ pc' = "write"
    /\ UNCHANGED <<env_actions, actions, start_image, seg_video, seg_latents,
                   t_videos, seg_video_list, all_video, seg_idx, history,
                   loadvars, arrowvars>>

\* Lines 178-179, one iteration.
WriteFrame ==
    /\ pc = "write"
    /\ Len(files[writer.path].frames) < Len(all_video)
    /\ files' = AppendData(files, writer.path,
                           all_video[Len(files[writer.path].frames) + 1])
    /\ UNCHANGED <<pc, env_actions, actions, start_image, seg_video,
                   seg_latents, t_videos, seg_video_list, all_video, seg_idx,
                   output_video_path, writer, history,
                   loadvars, arrowvars>>

\* A loop that goes on without closing the writer.
CloseWriterForgotten ==
    /\ pc = "write"
    /\ Len(files[writer.path].frames) = Len(all_video)
    /\ pc' = "incr"
    /\ UNCHANGED <<env_actions, actions, start_image, seg_video, seg_latents,
                   t_videos, seg_video_list, all_video, seg_idx,
                   output_video_path, writer, files, history,
                   loadvars, arrowvars>>

\* Line 180.
CloseWriter ==
    /\ pc = "write"
    /\ Len(files[writer.path].frames) = Len(all_video)
    /\ files' = CloseFile(files, writer.path)
    /\ writer' = [writer EXCEPT !.open = FALSE]
    /\ pc' = "incr"
    /\ UNCHANGED <<env_actions, actions, start_image, seg_video, seg_latents,
                   t_videos, seg_video_list, all_video, seg_idx,
                   output_video_path, history,
                   loadvars, arrowvars>>

\* Lines 175-180 raising an I/O error: the exception leaves main().
PersistFail ==
    /\ pc \in {"open", "write"}
    /\ pc' = "failed"
    /\ UNCHANGED <<env_actions, actions, start_image, seg_video, seg_latents,
                   t_videos, seg_video_list, all_video, seg_idx,
                   output_video_path, writer, files, history,
                   loadvars, arrowvars>>

\* A loop that leaves after one round.
IncrementAndExit ==
    /\ pc = "incr"
    /\ seg_idx' = seg_idx + 1
    /\ pc' = "exit"
    /\ UNCHANGED <<env_actions, actions, start_image, seg_video, seg_latents,
                   t_videos, seg_video_list, all_video, output_video_path,
                   writer, files, history,
                   loadvars, arrowvars>>

\* A loop that counts every round twice.
IncrementByTwo ==
    /\ pc = "incr"
    /\ seg_idx' = seg_idx + 2
    /\ pc' = "read"
    /\ UNCHANGED <<env_actions, actions, start_image, seg_video, seg_latents,
                   t_videos, seg_video_list, all_video, output_video_path,
                   writer, files, history,
                   loadvars, arrowvars>>

\* Lines 182-183.
Increment ==
    /\ pc = "incr"
    /\ seg_idx' = seg_idx + 1
    /\ pc' = "read"
    /\ UNCHANGED <<env_actions, actions, start_image, seg_video, seg_latents,
                   t_videos, seg_video_list, all_video, output_video_path,
                   writer, files, history,
                   loadvars, arrowvars>>

\* Lines 130-143: the state in which the loop is entered.
LoopInit ==
    /\ pc = "read"
    /\ env_actions = Unbound
    /\ actions = Unbound
    /\ start_image = Latent(0, 1)
    /\ seg_video = Unbound
    /\ seg_latents = NoTensor
    /\ t_videos = Unbound
    /\ seg_video_list = <<<<FirstFrame>>>>
    /\ all_video = Unbound
    /\ seg_idx = 0
    /\ output_video_path = NoPath
    /\ writer = NoWriter
    /\ files = Empty
    /\ history = <<>>

LoopNext ==
    \/ ReadActions
    \/ EncodeActions
    \/ Generate
    \/ GenerateFail
    \/ UpdateLatent
    \/ Stitch
    \/ OpenWriter
    \/ WriteFrame
    \/ CloseWriter
    \/ PersistFail
    \/ Increment

----------------------------------------------------------------------------
(* add_arrows_to_video *)

\* One frame of the video handed to the overlay: which frame it is, and the
\* arrow drawn on it so far.
OverlayFrame(i) == [id |-> i, arrow |-> "none"]

Videos(n) == {[i \in 1..m |-> OverlayFrame(i)] : m \in 0..n}

\* Lines 42-49: the arrow image as read, turned for s, a and d.
CreateArrowImage(direction) ==
    IF direction = "s" THEN "flipud"
    ELSE IF direction = "a" THEN "rot90"
    ELSE IF direction = "d" THEN "rot270"
    ELSE "asread"

\* Lines 61-67: the arrow is copied into the frame unless the action is blank.
DrawArrow(frame, action) ==
    IF action # " " THEN [frame EXCEPT !.arrow = CreateArrowImage(action)]
    ELSE frame

\* zip(video_np, actions) stops at the shorter of the two.
ZipLen == IF Len(video_np) <= Len(arrow_actions) THEN Len(video_np)
                                                 ELSE Len(arrow_actions)

\* An overlay that does not compare the two lengths.
CheckLengthsMissing ==
    /\ apc = "check"
    /\ apc' = "open"
    /\ UNCHANGED <<video_np, arrow_actions, arrow_file, arrow_i,
                   loadvars, loopvars>>

\* Lines 55-56.
CheckLengths ==
    /\ apc = "check"
    /\ apc' = IF Len(arrow_actions) # Len(video_np) THEN "ValueError"
                                                     ELSE "open"
    /\ UNCHANGED <<video_np, arrow_actions, arrow_file, arrow_i,
                   loadvars, loopvars>>

\* Lines 58-59.
ArrowOpen ==
    /\ apc = "open"
    /\ arrow_file' = [frames |-> <<>>, closed |-> FALSE]
    /\ apc' = "loop"
    /\ UNCHANGED <<video_np, arrow_actions, arrow_i, loadvars, loopvars>>

\* Lines 60-68, one iteration.
ArrowFrame ==
    /\ apc = "loop"
    /\ arrow_i < ZipLen
    /\ arrow_i' = arrow_i + 1
    /\ video_np' = [video_np EXCEPT
                      ![arrow_i'] = DrawArrow(@, arrow_actions[arrow_i'])]
    /\ arrow_file' = [arrow_file EXCEPT
                        !.frames = Append(@, video_np'[arrow_i'])]
    /\ UNCHANGED <<apc, arrow_actions, loadvars, loopvars>>

\* Line 62 raising: the arrow image cannot be read (line 40).
ArrowImageFail ==
    /\ apc = "loop"
    /\ arrow_i < ZipLen
    /\ arrow_actions[arrow_i + 1] # " "
    /\ apc' = "IOError"
    /\ UNCHANGED <<video_np, arrow_actions, arrow_file, arrow_i,
                   loadvars, loopvars>>

\* Line 69.
ArrowClose ==
    /\ apc = "loop"
    /\ arrow_i = ZipLen
    /\ arrow_file' = [arrow_file EXCEPT !.closed = TRUE]
    /\ apc' = "done"
    /\ UNCHANGED <<video_np, arrow_actions, arrow_i, loadvars, loopvars>>

\* main() never calls add_arrows_to_video.
ArrowUncalled ==
    /\ apc = "uncalled"
    /\ video_np = None
    /\ arrow_actions = None
    /\ arrow_file = None
    /\ arrow_i = 0

\* A call of add_arrows_to_video, at line 55.
ArrowInit ==
    /\ apc = "check"
    /\ video_np \in Videos(MaxOverlay)
    /\ arrow_actions \in Lines(MaxOverlay)
    /\ arrow_file = None
    /\ arrow_i = 0

ArrowNext ==
    \/ CheckLengths
    \/ ArrowOpen
    \/ ArrowFrame
    \/ ArrowImageFail
    \/ ArrowClose

----------------------------------------------------------------------------
(* Specifications *)

\* The loader's variables once main() is past line 98.
Loaded ==
    /\ lpc = "done"
    /\ ckpt_file = None
    /\ checkpoint = None
    /\ model = Empty
    /\ model_dict = Empty
    /\ pretrained_dict = Empty
    /\ todo = {}
    /\ ignored = <<>>
    /\ loaded_pct = None

\* The session loop, entered with the checkpoint already restored.
Init == Loaded /\ LoopInit /\ ArrowUncalled

Next == LoopNext

Spec == Init /\ [][Next]_vars

\* The checkpoint loader, over every bounded checkpoint file and live model.
InitLoad == LoadInit /\ LoopInit /\ ArrowUncalled

NextLoad == LoadNext

SpecLoad == InitLoad /\ [][NextLoad]_vars

\* The action encoder alone, over every bounded line of symbols: main() at
\* line 147 of the first round.
InitEncode ==
    /\ Loaded
    /\ ArrowUncalled
    /\ pc = "encode"
    /\ env_actions \in Lines(MaxSymbols)
    /\ actions = Unbound
    /\ start_image = Latent(0, 1)
    /\ seg_video = Unbound
    /\ seg_latents = NoTensor
    /\ t_videos = Unbound
    /\ seg_video_list = <<<<FirstFrame>>>>
    /\ all_video = Unbound
    /\ seg_idx = 0
    /\ output_video_path = NoPath
    /\ writer = NoWriter
    /\ files = Empty
    /\ history = <<>>

NextEncode == EncodeActions

SpecEncode == InitEncode /\ [][NextEncode]_vars

\* The session loop as a running process: a step that can be taken is taken.
SpecFair == Spec /\ WF_vars(Next)

\* The loop's variables in a process that is not running main().
LoopUncalled ==
    /\ pc = "uncalled"
    /\ env_actions = Unbound
    /\ actions = Unbound
    /\ start_image = NoTensor
    /\ seg_video = Unbound
    /\ seg_latents = NoTensor
    /\ t_videos = Unbound
    /\ seg_video_list = <<>>
    /\ all_video = Unbound
    /\ seg_idx = 0
    /\ output_video_path = NoPath
    /\ writer = NoWriter
    /\ files = Empty
    /\ history = <<>>

\* Either entry into the file: main()'s session loop, or a call of
\* add_arrows_to_video on a bounded video and list of actions.
InitArrows == Init \/ (Loaded /\ LoopUncalled /\ ArrowInit)

NextArrows == LoopNext \/ ArrowNext

SpecArrows == InitArrows /\ [][NextArrows]_vars

----------------------------------------------------------------------------
(* Properties of the session loop *)

\* The cumulative video buffer: the frames seg_video_list holds, in order.
Buffer == Concatenate(seg_video_list)

RECURSIVE SumNewFrames(_)
\* Sum over the segments of h of (segment length - 1).
SumNewFrames(h) ==
    IF h = <<>> THEN 0 ELSE (Len(Head(h)) - 1) + SumNewFrames(Tail(h))

\* The rounds whose segment has been stitched into the buffer.
Stitched == Len(seg_video_list) - 1

\* C1: each round's stitch makes the buffer longer by the length of that
\* round's segment minus 1, and after n stitched rounds the buffer holds
\* 1 + the sum over rounds 1..n of (segment length - 1) frames.
C1_BufferLength ==
    /\ [](Len(Buffer) = 1 + SumNewFrames(SubSeq(history, 1, Stitched)))
    /\ [][pc = "stitch" =>
            /\ Len(all_video') = Len(Buffer) + Len(seg_video) - 1
            /\ Len(Buffer') = Len(all_video')]_vars

C1_Witness ==
    /\ pc = "open"
    /\ Stitched = 2
    /\ Len(history[1]) = 3
    /\ Len(history[2]) = 2
    /\ Len(all_video) = 4

\* The latent trajectory the generator returned in the latest round: the
\* number of latents in it, and its i-th latent.
TrajectoryLen == seg_latents.shape[2]

Trajectory(i) == Slice(Slice(seg_latents, 1), i)

\* C2: once a round has updated the latent, the current latent frame is the
\* last latent of the trajectory returned in that round, and it is one latent
\* frame.
C2_LatentIsLastOfTrajectory ==
    pc \in {"stitch", "open", "write", "incr"} =>
        /\ start_image = Trajectory(TrajectoryLen)
        /\ IsLatent(start_image)

\* C2, in the rounds whose trajectory holds at least two latents.
C2_Witness ==
    /\ pc = "incr"
    /\ TrajectoryLen = 3
    /\ start_image = Latent(seg_idx + 1, 3)

FiveVectors ==
    {<<Half, 0>>, <<-Half, 0>>, <<0, -Half>>, <<0, Half>>, <<0, 0>>}

\* C3: the encoded action sequence is as long as the line of symbols, the
\* empty line included, and each of its elements is one of the five control
\* vectors.
C3_EncodeLengthAndRange ==
    pc = "generate" =>
        /\ Len(actions) = Len(env_actions)
        /\ \A i \in 1..Len(actions) : actions[i] \in FiveVectors

C3_Witness ==
    /\ pc = "generate"
    /\ env_actions = <<"x", "w", "x">>
    /\ Len(actions) = 3

\* The lookup table of the data model.
Lookup(symbol) ==
    CASE symbol = "w" -> <<Half, 0>>
      [] symbol = "s" -> <<-Half, 0>>
      [] symbol = "a" -> <<0, -Half>>
      [] symbol = "d" -> <<0, Half>>
      [] OTHER -> <<0, 0>>

\* C4: position i of the encoding is the table's vector for symbol i alone,
\* (0,0) for a blank or a symbol outside the alphabet; "wd " encodes to
\* [(0.5,0), (0,0.5), (0,0)].
C4_EncodePositionWise ==
    pc = "generate" =>
        /\ DOMAIN actions = DOMAIN env_actions
        /\ \A i \in DOMAIN env_actions : actions[i] = Lookup(env_actions[i])
        /\ env_actions = <<"w", "d", " ">> =>
             actions = << <<Half, 0>>, <<0, Half>>, <<0, 0>> >>

C4_Witness ==
    /\ pc = "generate"
    /\ env_actions = <<"w", "d", " ">>
    /\ actions = << <<5, 0>>, <<0, 5>>, <<0, 0>> >>

----------------------------------------------------------------------------
(* Properties of the checkpoint loader *)

\* The filter loop of lines 90-94 has visited every entry.
Filtered ==
    \/ lpc = "filter" /\ todo = {}
    \/ lpc \in {"update", "done", "ZeroDivisionError", "RuntimeError"}

Range(q) == {q[i] : i \in DOMAIN q}

\* The names applied, and the names reported as ignored.
Applied == DOMAIN pretrained_dict

Skipped == Range(ignored)

\* C5: with C the checkpoint being filtered (the "ema" entry when there is
\* one) and M the live model's names, applied = names(C) \cap M and
\* skipped = names(C) \ M; the two are disjoint and cover names(C), and each
\* applied entry carries the checkpoint's value.
C5_AppliedAndSkipped ==
    Filtered =>
        /\ Applied = Keys(checkpoint) \cap DOMAIN model
        /\ Skipped = Keys(checkpoint) \ DOMAIN model
        /\ Applied \cap Skipped = {}
        /\ Applied \cup Skipped = Keys(checkpoint)
        /\ Len(ignored) = Cardinality(Skipped)
        /\ \A k \in Applied : pretrained_dict[k] = checkpoint.items[k]

C5_Witness ==
    /\ lpc = "done"
    /\ Keys(checkpoint) = {"a", "b", "c"}
    /\ DOMAIN model = {"a", "c", "d"}
    /\ Applied = {"a", "c"}
    /\ ignored = <<"b">>

\* C6: for every checkpoint dictionary, the empty one included, the loader
\* does not fail, and the value it reports is |applied| / |C| (printed as a
\* percentage), between 0 and 1.
C6_FractionReported ==
    /\ lpc # "ZeroDivisionError"
    /\ lpc \in {"update", "done"} =>
         /\ loaded_pct[1] * DictLen(checkpoint)
              = 100 * Cardinality(Applied) * loaded_pct[2]
         /\ loaded_pct[2] > 0
         /\ 0 <= loaded_pct[1]
         /\ loaded_pct[1] <= 100 * loaded_pct[2]

\* C6, where the checkpoint has entries: 2 of 3 applied.
C6_Witness ==
    /\ lpc = "done"
    /\ Keys(checkpoint) = {"a", "b", "c"}
    /\ DOMAIN model = {"a", "c", "d"}
    /\ loaded_pct = <<200, 3>>

\* What one run of the loader leaves behind.
Outcome ==
    [status |-> lpc, applied |-> pretrained_dict, skipped |-> Skipped,
     pct |-> loaded_pct, model |-> model]

Finished ==
    lpc \in {"done", "AttributeError", "ZeroDivisionError", "RuntimeError"}

\* The live model as it was before the loader ran.
ModelBefore == [k \in DOMAIN model |-> Tensor("init", k)]

\* Lines 89-94 as a whole: the entries of c whose name md has.
FilterAll(c, md) ==
    [k \in {n \in Keys(c) : KeepKey(n, md)} |-> c.items[k]]

\* Lines 83-97 run on file content c and live model m, start to end.
Load(c, m) ==
    LET eff == UseEmaCkpt(c)
        app == FilterAll(eff, m)
        skp == {n \in Keys(eff) : ~KeepKey(n, m)}
    IN  IF ~IsDict(eff)
          THEN [status |-> "AttributeError", applied |-> Empty, skipped |-> {},
                pct |-> None, model |-> m]
        ELSE IF DictLen(eff) = 0
          THEN [status |-> "ZeroDivisionError", applied |-> app,
                skipped |-> skp, pct |-> None, model |-> m]
        ELSE [status |-> "done", applied |-> app, skipped |-> skp,
              pct |-> PctLoaded(app, eff), model |-> Update(m, app)]

\* The file holds a parameter set under the key "ema".
HasEmaEntry == HasKey(ckpt_file, "ema") /\ IsDict(ckpt_file.items["ema"])

\* C7 as stated: a file with an "ema" entry E loads as E alone would.
C7_EmaPrecedence ==
    (Finished /\ HasEmaEntry) =>
        Outcome = Load(ckpt_file.items["ema"], ModelBefore)

\* C7, amended: a file with an "ema" entry E that has no entry named "ema"
\* of its own loads as E alone would: same applied and skipped names, same
\* fraction, same resulting model; the file's other entries play no role.
C7_EmaPrecedenceFlat ==
    (Finished /\ HasEmaEntry /\ ~HasKey(ckpt_file.items["ema"], "ema")) =>
        Outcome = Load(ckpt_file.items["ema"], ModelBefore)

C7_Witness ==
    /\ lpc = "done"
    /\ Keys(ckpt_file) = {"ema", "model"}
    /\ Keys(ckpt_file.items["model"]) = {"d"}
    /\ Keys(ckpt_file.items["ema"]) = {"a", "b", "c"}
    /\ DOMAIN model = {"a", "c", "d"}
    /\ model["a"] = Tensor("ema", "a")
    /\ model["d"] = Tensor("init", "d")
    /\ Skipped = {"b"}

----------------------------------------------------------------------------
(* Properties of the persisted files *)

\* The files of the rounds before round index n.
RoundPaths(n) == {VideoPath(i) : i \in 0..(n - 1)}

\* The rounds whose file has been written and closed.
ClosedFiles == {p \in DOMAIN files : files[p].closed}

\* C8: the path a round opens is tagged with its index and is the path of no
\* earlier round, a file once closed is never touched again, and at the start
\* of round index n exactly the n files of the earlier rounds exist.
C8_RoundFilesDistinct ==
    /\ [](pc \in {"read", "encode", "generate", "update", "stitch", "open"} =>
            /\ DOMAIN files = RoundPaths(seg_idx)
            /\ Cardinality(DOMAIN files) = seg_idx)
    /\ [][/\ pc = "open" /\ pc' = "write" =>
               /\ output_video_path' = VideoPath(seg_idx)
               /\ output_video_path' \notin DOMAIN files
          /\ \A p \in ClosedFiles :
               p \in DOMAIN files' /\ files'[p] = files[p]]_vars

C8_Witness ==
    /\ pc = "read"
    /\ seg_idx = 3
    /\ Cardinality(ClosedFiles) = 3

RECURSIVE NewFrames(_)
\* Every segment of h, first frame dropped, as 8-bit frames, in order.
NewFrames(h) ==
    IF h = <<>> THEN <<>>
    ELSE [i \in 1..(Len(Head(h)) - 1) |-> ToUint8(Head(h)[i + 1])]
           \o NewFrames(Tail(h))

\* The cumulative video after n rounds.
Cumulative(n) == <<FirstFrame>> \o NewFrames(SubSeq(history, 1, n))

IsPrefix(a, b) == Len(a) <= Len(b) /\ SubSeq(b, 1, Len(a)) = a

\* C9: the closed file of round index i holds, in order, the initial frame
\* followed by the segments of rounds 1..i+1 without their first frames, which
\* is the buffer as extended in that round; and the buffer only ever grows at
\* its end.
C9_FileHoldsCumulativeVideo ==
    /\ [](\A i \in 0..MaxRounds :
            VideoPath(i) \in ClosedFiles =>
                files[VideoPath(i)].frames = Cumulative(i + 1))
    /\ [](pc \in {"write", "incr"} =>
            /\ all_video = Buffer
            /\ Buffer = Cumulative(seg_idx + 1)
            /\ IsPrefix(files[VideoPath(seg_idx)].frames, Buffer))
    /\ [][IsPrefix(Buffer, Buffer')]_vars

C9_Witness ==
    /\ pc = "incr"
    /\ seg_idx = 1
    /\ Len(history[1]) = 3
    /\ Len(history[2]) = 3
    /\ Len(files[VideoPath(0)].frames) = 3
    /\ Len(files[VideoPath(1)].frames) = 5
    /\ files[VideoPath(1)].closed

\* The order of the steps of one round, and the two ways out of the loop.
StepOrder ==
    {<<"read", "encode">>, <<"encode", "generate">>, <<"generate", "update">>,
     <<"update", "stitch">>, <<"stitch", "open">>, <<"open", "write">>,
     <<"write", "incr">>, <<"incr", "read">>,
     <<"generate", "failed">>, <<"open", "failed">>, <<"write", "failed">>}

\* C10: the loop goes read, encode, generate, update latent, extend buffer,
\* persist, increment, the round index moving only at the increment; and while
\* round index n is at any step, the file of every earlier round is complete
\* and closed.
C10_StepOrder ==
    /\ [][/\ pc' # pc => <<pc, pc'>> \in StepOrder
          /\ seg_idx' # seg_idx =>
               pc = "incr" /\ pc' = "read" /\ seg_idx' = seg_idx + 1]_vars
    /\ [](pc # "failed" =>
            \A i \in 0..(seg_idx - 1) :
                /\ VideoPath(i) \in ClosedFiles
                /\ files[VideoPath(i)].frames = Cumulative(i + 1))
    /\ [](pc = "incr" => VideoPath(seg_idx) \in ClosedFiles)

C10_Witness ==
    /\ pc = "encode"
    /\ seg_idx = 2
    /\ ClosedFiles = RoundPaths(2)

----------------------------------------------------------------------------
(* Properties of failures and of progress *)

\* C11: when the generator call raises in the round of index n, main() stops
\* there for good; no file of index n exists, and the buffer, the round index
\* and the latent held (now under the two dimensions line 163 added) are those
\* the round began with.
C11_GeneratorFailureEndsSession ==
    /\ [][pc = "generate" /\ pc' # "update" =>
            /\ pc' = "failed"
            /\ Squeeze(start_image') = start_image
            /\ UNCHANGED <<seg_video_list, all_video, seg_idx, files>>
            /\ VideoPath(seg_idx) \notin DOMAIN files'
            /\ Stitched' = seg_idx'
            /\ ClosedFiles' = RoundPaths(seg_idx')]_vars
    /\ [][pc # "failed"]_vars

C11_Witness ==
    /\ pc = "failed"
    /\ seg_idx = 1
    /\ start_image = Unsqueeze(Unsqueeze(Latent(1, 3)))
    /\ Len(Buffer) = 3
    /\ DOMAIN files = RoundPaths(1)

LoopPositions ==
    {"read", "encode", "generate", "update", "stitch", "open", "write",
     "incr", "failed"}

\* C12: the loop has no position of its own at which it ends, and unless a
\* step fails every round that has read its input comes back to awaiting
\* input with its file closed and the round index one higher.
C12_RoundsComplete ==
    /\ [](pc \in LoopPositions)
    /\ [][pc' = "read" =>
            /\ seg_idx' = seg_idx + 1
            /\ VideoPath(seg_idx) \in ClosedFiles'
            /\ files'[VideoPath(seg_idx)].frames = Buffer']_vars
    /\ (pc = "encode") ~> (pc = "failed" \/ pc = "read")

C12_Witness ==
    /\ pc = "read"
    /\ seg_idx = MaxRounds
    /\ ClosedFiles = RoundPaths(MaxRounds)

----------------------------------------------------------------------------
(* Properties of add_arrows_to_video *)

\* The video handed to the overlay has not been written to.
VideoUntouched == \A i \in 1..Len(video_np) : video_np[i] = OverlayFrame(i)

\* C13: when the list of actions and the video differ in length the overlay
\* ends in the validation error with no output file opened and no frame
\* written or changed, and it ends in that error in no other case; the main
\* session loop never calls the overlay, so the error is never raised there.
C13_LengthCheckedFirst ==
    /\ pc # "uncalled" => apc = "uncalled"
    /\ apc # "uncalled" =>
         /\ pc = "uncalled"
         /\ apc = "ValueError" <=>
              (apc # "check" /\ Len(arrow_actions) # Len(video_np))
         /\ Len(arrow_actions) # Len(video_np) =>
              /\ apc \in {"check", "ValueError"}
              /\ arrow_file = None
              /\ arrow_i = 0
              /\ VideoUntouched

C13_Witness ==
    /\ apc = "ValueError"
    /\ Len(arrow_actions) = 2
    /\ Len(video_np) = 1
    /\ arrow_file = None

----------------------------------------------------------------------------
(* Properties of the session loop, continued *)

\* The latent frame a round begins with: the first latent of the reference
\* latent video in the first round, the last latent of the trajectory the
\* previous round returned in every later round.
RoundLatent == IF seg_idx = 0 THEN Latent(0, 1)
                              ELSE Trajectory(TrajectoryLen)

\* C14: when the generator is about to be invoked, the seed it is given is
\* the latent frame the round began with (the initial reference latent in
\* the first round, the last latent returned in the previous round later),
\* and the actions it is given are the encoding of this round's input alone.
C14_GeneratorArguments ==
    pc = "generate" =>
        /\ start_image = RoundLatent
        /\ IsLatent(start_image)
        /\ actions = Encode(env_actions)

\* C14, in a round that follows a trajectory of at least two latents.
C14_Witness ==
    /\ pc = "generate"
    /\ seg_idx = 1
    /\ TrajectoryLen = 2
    /\ start_image = Latent(1, 2)
    /\ actions = Encode(env_actions)

\* C15: writing the round's file leaves the cumulative buffer, the current
\* latent frame and the round index as they were, the file holds the buffer
\* frame for frame, and writing the same buffer to the same path once more
\* leaves the same file.
C15_PersistReadsOnly ==
    /\ [][pc = "open" \/ pc = "write" =>
                /\ UNCHANGED <<seg_video_list, all_video, start_image,
                               seg_idx>>
                /\ pc' # "read"]_vars
    /\ [](pc = "incr" =>
            /\ all_video = Buffer
            /\ files[output_video_path].frames = all_video
            /\ Persist(files, output_video_path, all_video) = files)

C15_Witness ==
    /\ pc = "incr"
    /\ seg_idx = 1
    /\ Len(all_video) = 4
    /\ files[VideoPath(1)] = [frames |-> all_video, closed |-> TRUE]
    /\ Persist(files, VideoPath(1), all_video) = files

----------------------------------------------------------------------------
(* Properties of the checkpoint loader, continued *)

\* C16: merging the checkpoint leaves the live model's set of parameter
\* names as it was; after the merge each parameter named in the checkpoint
\* holds the checkpoint's value and every other parameter holds the value it
\* had before the load; until the merge the model is untouched, and the
\* merge is never refused for a missing or an unexpected name.
C16_MergeKeepsNames ==
    /\ [][DOMAIN model' = DOMAIN model]_vars
    /\ [](lpc # "RuntimeError")
    /\ [](lpc # "done" => model = ModelBefore)
    /\ [](lpc = "done" =>
            \A k \in DOMAIN model :
                model[k] = IF k \in Keys(checkpoint) THEN checkpoint.items[k]
                                                     ELSE ModelBefore[k])

C16_Witness ==
    /\ lpc = "done"
    /\ DOMAIN model = {"a", "c", "d"}
    /\ Keys(checkpoint) = {"a", "b"}
    /\ model["a"] = checkpoint.items["a"]
    /\ model["a"] # ModelBefore["a"]
    /\ model["c"] = ModelBefore["c"]
    /\ model["d"] = ModelBefore["d"]

----------------------------------------------------------------------------
(* Properties of the round index *)

\* C17 as stated: in every state the round index is the number of files
\* written and closed so far.
C17_IndexIsClosedFiles == seg_idx = Cardinality(ClosedFiles)

\* C17: the round index starts at 0 and is the number of files written and
\* closed so far at every step but one: between the closing of a round's
\* file and the increment it is one less.  The file of the k-th round is
\* tagged k-1, and the index moves by exactly 1, only once that file is
\* written and closed.
C17_IndexCountsRounds ==
    /\ seg_idx = 0
    /\ [](pc # "incr" =>
            /\ ClosedFiles = RoundPaths(seg_idx)
            /\ seg_idx = Cardinality(ClosedFiles))
    /\ [](pc = "incr" =>
            /\ ClosedFiles = RoundPaths(seg_idx + 1)
            /\ seg_idx = Cardinality(ClosedFiles) - 1)
    /\ [][pc = "open" /\ pc' = "write" =>
            /\ Stitched = seg_idx + 1
            /\ output_video_path' = VideoPath(Stitched - 1)]_vars
    /\ [][seg_idx' # seg_idx =>
            /\ seg_idx' = seg_idx + 1
            /\ VideoPath(seg_idx) \in ClosedFiles
            /\ files[VideoPath(seg_idx)].frames = Buffer]_vars

C17_Witness ==
    /\ pc = "incr"
    /\ seg_idx = 1
    /\ ClosedFiles = {VideoPath(0), VideoPath(1)}

----------------------------------------------------------------------------
(* Properties of a failure while the file is written *)

\* The session ended while the file of the round was being written: the
\* round's segment is in the buffer and the index has not moved.
PersistFailed == pc = "failed" /\ Stitched = seg_idx + 1

\* C18: when writing the file fails in round n (counted from 1), the session
\* ends with the current latent being the last latent round n returned and
\* the buffer being the cumulative video through round n, while the round
\* index is still n-1 and the closed files are those of the earlier rounds.
C18_AdvancedBeforePersist ==
    PersistFailed =>
        /\ start_image = Trajectory(TrajectoryLen)
        /\ IsLatent(start_image)
        /\ Buffer = Cumulative(seg_idx + 1)
        /\ all_video = Buffer
        /\ Len(history) = seg_idx + 1
        /\ ClosedFiles = RoundPaths(seg_idx)

\* C18, in a round whose trajectory holds two latents, the file cut short.
C18_Witness ==
    /\ PersistFailed
    /\ seg_idx = 1
    /\ TrajectoryLen = 2
    /\ start_image = Latent(2, 2)
    /\ Buffer = Cumulative(2)
    /\ VideoPath(1) \in DOMAIN files
    /\ VideoPath(1) \notin ClosedFiles
    /\ Len(files[VideoPath(1)].frames) < Len(all_video)

====
